---- MODULE Spec2Model ----
(***************************************************************************)
(* State-machine model of servidor.py: the Flask + SQLite task service.    *)
(* The two SQLite tables, the clock read by the token serializer, the set  *)
(* of tokens handed out by /login, the request threads that are between    *)
(* create_user's SELECT and its INSERT, and the last request/response.     *)
(*                                                                         *)
(* Text is a sequence of one-character strings, so that str.strip() and    *)
(* str.lower() are computed rather than assumed; an Authorization header   *)
(* is given as the words auth.split() yields. Every handler is one atomic  *)
(* step except create_user, whose SELECT and INSERT are two, since each     *)
(* opens its own connection and other requests may run in between.         *)
(* Timestamps creado_en / creada_en are not modelled: no handler reads     *)
(* them except to echo creada_en in GET /tareas/json.                      *)
(***************************************************************************)
EXTENDS Integers, Sequences, FiniteSets

\* ---------------------------------------------------------------- bounds
MaxTime == 2        \* the clock runs 0..MaxTime
MaxTokens == 2      \* tokens handed out by /login
MaxTareas == 2      \* rows ever inserted into tareas
NumWorkers == 2     \* request threads that may be inside create_user

\* servidor.py:22, TOKEN_EXPIRATION_SECONDS (PFO2_TOKEN_TTL), here one tick
TOKEN_EXPIRATION_SECONDS == 1

\* servidor.py:21, the signing key, and a key the server does not use
SECRET_KEY == "cambia-esto-en-produccion"
OtherKey == "otra-clave"

\* ------------------------------------------------------------------ text
Blank == " "

\* str.strip(): drop leading and trailing whitespace
RECURSIVE LStrip(_)
LStrip(s) == IF s # <<>> /\ Head(s) = Blank THEN LStrip(Tail(s)) ELSE s

RECURSIVE RStrip(_)
RStrip(s) ==
    IF s # <<>> /\ s[Len(s)] = Blank THEN RStrip(SubSeq(s, 1, Len(s) - 1)) ELSE s

Strip(s) == RStrip(LStrip(s))

\* str.lower() on the letters the Authorization scheme uses
LowerChar(c) == CASE c = "B" -> "b" [] c = "E" -> "e" [] c = "A" -> "a"
                  [] c = "R" -> "r" [] OTHER -> c

Lower(s) == [i \in DOMAIN s |-> LowerChar(s[i])]

BearerLower == <<"b", "e", "a", "r", "e", "r">>

\* ------------------------------------------------------------ JSON values
\* A JSON object is a function from its keys; a value is a number or a string.
JNum(n) == [type |-> "number", n |-> n, s |-> <<>>]
JStr(s) == [type |-> "string", n |-> 0, s |-> s]

\* request.is_json is False: no JSON body at all
NoJson == [json |-> FALSE, obj |-> <<>>]
Json(obj) == [json |-> TRUE, obj |-> obj]

\* payload.get(key) or "": the text under key, "" when absent or falsy
GetText(obj, key) == IF key \in DOMAIN obj THEN obj[key].s ELSE <<>>

\* int(v) raises ValueError on text that is not a number
CanInt(v) == v.type = "number" \/ (v.type = "string" /\ Strip(v.s) \in {<<"0">>, <<"1">>})
IntOf(v) == IF v.type = "number" THEN v.n
            ELSE IF Strip(v.s) = <<"1">> THEN 1 ELSE 0

\* -------------------------------------------------------------- password
\* werkzeug: generate_password_hash / check_password_hash
generate_password_hash(password) == <<"pbkdf2">> \o password
\* faulty variant: a check that accepts any password
check_password_hash_Any(pwhash, password) == TRUE

check_password_hash(pwhash, password) == pwhash = <<"pbkdf2">> \o password

VARIABLES
    usuarios,   \* table usuarios: rows [id, usuario, password_hash]
    usuarioSeq, \* AUTOINCREMENT counter of usuarios
    tareas,     \* table tareas: rows [id, titulo, hecha, usuario_id]
    tareaSeq,   \* AUTOINCREMENT counter of tareas
    now,        \* the clock the serializer reads
    issued,     \* tokens returned by /login so far
    pending,    \* per request thread: the create_user call past its SELECT
    creados,    \* history: per username, the passwords as given to the
                \* /registro requests that answered 201
    last        \* the request just handled and its response

vars == <<usuarios, usuarioSeq, tareas, tareaSeq, now, issued, pending, creados, last>>

\* ------------------------------------------------------------------ rows
NoRow == [id |-> 0, usuario |-> <<>>, password_hash |-> <<>>]
NoUser == <<>>          \* None / "" as a username: both are falsy
NoId == 0               \* None as a row id (AUTOINCREMENT ids start at 1)
Idle == [usuario |-> <<>>, password_hash |-> <<>>, body |-> NoJson]

\* ---------------------------------------------------------------- tokens
\* URLSafeTimedSerializer: the signature binds key, payload and timestamp
Sign(key, sub, iat) == <<key, sub, iat>>
NoToken == [sub |-> <<>>, iat |-> 0, sig |-> <<>>]

\* servidor.py generate_token: serializer.dumps({"sub": username})
generate_token(username) ==
    [sub |-> username, iat |-> now, sig |-> Sign(SECRET_KEY, username, now)]

\* faulty variant: loads(token) without max_age, only the signature is checked
verify_token_NoMaxAge(token) ==
    IF token.sig # Sign(SECRET_KEY, token.sub, token.iat) THEN NoUser ELSE token.sub

\* servidor.py verify_token: loads(token, max_age=TTL); BadSignature and
\* SignatureExpired (age > max_age) both give None
verify_token(token) ==
    IF token.sig # Sign(SECRET_KEY, token.sub, token.iat) THEN NoUser
    ELSE IF now - token.iat > TOKEN_EXPIRATION_SECONDS THEN NoUser
    ELSE token.sub

\* One whitespace-separated word of an Authorization header: text or a token
Word(text) == [text |-> text, tok |-> NoToken]
TokWord(t) == [text |-> <<"t", "o", "k">>, tok |-> t]

\* faulty variant: the scheme word is not looked at
require_user_AnyScheme(auth) ==
    IF Len(auth) = 2 THEN verify_token(auth[2].tok) ELSE NoUser

\* servidor.py require_user; auth is the header as auth.split() sees it
require_user(auth) ==
    IF Len(auth) = 2 /\ Lower(auth[1].text) = BearerLower
    THEN verify_token(auth[2].tok)
    ELSE NoUser

\* ------------------------------------------------------------- DB lookups
\* servidor.py get_user_by_username: fetchone() of the matching rows
get_user_by_username(username) ==
    IF \E r \in usuarios : r.usuario = username
    THEN CHOOSE r \in usuarios : r.usuario = username
    ELSE NoRow

\* faulty variant: the lookup compares the wrong column and finds no row
get_user_id_WrongColumn(username) ==
    IF \E r \in usuarios : r.password_hash = username
    THEN (CHOOSE r \in usuarios : r.password_hash = username).id
    ELSE NoId

\* servidor.py get_user_id
get_user_id(username) ==
    IF \E r \in usuarios : r.usuario = username
    THEN (CHOOSE r \in usuarios : r.usuario = username).id
    ELSE NoId

\* faulty variant: the column is not declared UNIQUE
UniqueViolation_NoConstraint(username) == FALSE

\* UNIQUE(usuario): the INSERT raises IntegrityError when the name is taken
UniqueViolation(username) == \E r \in usuarios : r.usuario = username

\* SELECT ... WHERE usuario_id = ? ORDER BY id DESC
RECURSIVE OrderByIdDesc(_)
OrderByIdDesc(rows) ==
    IF rows = {} THEN <<>>
    ELSE LET top == CHOOSE r \in rows : \A q \in rows : q.id <= r.id
         IN  <<top>> \o OrderByIdDesc(rows \ {top})

\* faulty variant: the SELECT has no WHERE usuario_id = ?
SelectTareas_NoWhere(uid) == OrderByIdDesc(tareas)

SelectTareas(uid) == OrderByIdDesc({r \in tareas : r.usuario_id = uid})

\* faulty variant: WHERE id = ? alone
Matching_AnyOwner(tid, uid) == {r \in tareas : r.id = tid}

\* WHERE id = ? AND usuario_id = ?
Matching(tid, uid) == {r \in tareas : r.id = tid /\ r.usuario_id = uid}

\* faulty variant: INTEGER PRIMARY KEY without AUTOINCREMENT: one more than the
\* largest id in the table
NextTareaId_Rowid ==
    IF tareas = {} THEN 1
    ELSE (CHOOSE r \in tareas : \A q \in tareas : q.id <= r.id).id + 1

\* id INTEGER PRIMARY KEY AUTOINCREMENT: one more than the largest id ever used
NextTareaId == tareaSeq + 1

\* -------------------------------------------------------------- responses
\* at: the statement that answered; db: whether the handler had opened a
\* database connection when it answered
Resp0 == [op |-> "", at |-> "", db |-> FALSE, hdr |-> <<>>, usuario |-> <<>>,
          tid |-> 0, body |-> NoJson, status |-> 0, token |-> NoToken,
          items |-> <<>>, id |-> 0, msg |-> ""]

Init ==
    /\ usuarios = {}
    /\ usuarioSeq = 0
    /\ tareas = {}
    /\ tareaSeq = 0
    /\ now = 0
    /\ issued = {}
    /\ pending = [w \in 1..NumWorkers |-> Idle]
    /\ creados = [u \in {} |-> <<>>]
    /\ last = Resp0

\* time.time() advances
Tick ==
    /\ now < MaxTime
    /\ now' = now + 1
    /\ last' = [Resp0 EXCEPT !.op = "tick"]
    /\ UNCHANGED <<usuarios, usuarioSeq, tareas, tareaSeq, issued, pending, creados>>

\* ------------------------------------------------------------- /registro
\* payload.get("contraseña") or payload.get("contrasena") or ""; the first
\* key is spelled "contrase~na" here
GetPassword(obj) ==
    IF GetText(obj, "contrase~na") # <<>> THEN GetText(obj, "contrase~na")
    ELSE GetText(obj, "contrasena")

RegistroResp(body, status, username, msg, at) ==
    [Resp0 EXCEPT !.op = "registro", !.body = body, !.status = status,
                  !.usuario = username,
                  !.msg = msg, !.at = at,
                  !.db = at \in {"select", "insert"}]

\* POST /registro up to create_user's pre-lookup (servidor.py 122-70): the
\* request thread w either answers 400 or goes on to the INSERT
registro(w, body) ==
    /\ pending[w] = Idle
    /\ LET username == Strip(GetText(body.obj, "usuario"))
           password == Strip(GetPassword(body.obj))
       IN  IF ~body.json
           THEN /\ last' = RegistroResp(body, 400, NoUser, "Se requiere JSON", "is_json")
                /\ UNCHANGED pending
           ELSE IF username = <<>> \/ password = <<>>
           THEN /\ last' = RegistroResp(body, 400, username, "obligatorios", "empty")
                /\ UNCHANGED pending
           ELSE IF get_user_by_username(username) # NoRow
           THEN /\ last' = RegistroResp(body, 400, username, "ya existe", "select")
                /\ UNCHANGED pending
           ELSE /\ pending' = [pending EXCEPT ![w] =
                        [usuario |-> username,
                         password_hash |-> generate_password_hash(password),
                         body |-> body]]
                /\ last' = [Resp0 EXCEPT !.op = "create_user", !.usuario = username,
                                         !.at = "select", !.db = TRUE]
    /\ UNCHANGED <<usuarios, usuarioSeq, tareas, tareaSeq, now, issued, creados>>

\* create_user's INSERT and commit (servidor.py 71-80) and registro's answer
create_user_insert(w) ==
    /\ pending[w] # Idle
    /\ pending' = [pending EXCEPT ![w] = Idle]
    /\ LET username == pending[w].usuario
       IN  IF UniqueViolation(username)
           THEN /\ last' = RegistroResp(pending[w].body, 400, username, "ya existe", "insert")
                /\ UNCHANGED <<usuarios, usuarioSeq, creados>>
           ELSE /\ usuarios' = usuarios \cup
                        {[id |-> usuarioSeq + 1, usuario |-> username,
                          password_hash |-> pending[w].password_hash]}
                /\ usuarioSeq' = usuarioSeq + 1
                /\ creados' = [u \in DOMAIN creados \cup {username} |->
                                 (IF u \in DOMAIN creados THEN creados[u] ELSE <<>>)
                                 \o (IF u = username THEN <<GetPassword(pending[w].body.obj)>> ELSE <<>>)]
                /\ last' = RegistroResp(pending[w].body, 201, username, "creado", "insert")
    /\ UNCHANGED <<tareas, tareaSeq, now, issued>>

\* ---------------------------------------------------------------- /login
LoginResp(body, status, username, token) ==
    [Resp0 EXCEPT !.op = "login", !.body = body, !.status = status,
                  !.usuario = username, !.token = token, !.db = body.json]

\* POST /login (servidor.py 132-145)
login(body) ==
    /\ LET username == Strip(GetText(body.obj, "usuario"))
           password == Strip(GetPassword(body.obj))
           user == get_user_by_username(username)
           token == generate_token(username)
       IN  IF ~body.json
           THEN /\ last' = LoginResp(body, 400, NoUser, NoToken)
                /\ UNCHANGED issued
           ELSE IF user = NoRow
           THEN /\ last' = LoginResp(body, 401, username, NoToken)
                /\ UNCHANGED issued
           ELSE IF ~check_password_hash(user.password_hash, password)
           THEN /\ last' = LoginResp(body, 401, username, NoToken)
                /\ UNCHANGED issued
           ELSE /\ token \in issued \/ Cardinality(issued) < MaxTokens
                /\ issued' = issued \cup {token}
                /\ last' = LoginResp(body, 200, username, token)
    /\ UNCHANGED <<usuarios, usuarioSeq, tareas, tareaSeq, now, pending, creados>>

\* ----------------------------------------------------------- GET /tareas
Unauthorized(op, auth) == [Resp0 EXCEPT !.op = op, !.hdr = auth, !.status = 401]

\* What a handler that got past require_user answers
Answer(op, auth, username, tid, body, status, db) ==
    [Resp0 EXCEPT !.op = op, !.hdr = auth, !.usuario = username, !.tid = tid,
                  !.body = body, !.status = status, !.db = db]

\* GET /tareas, the handler named tareas (servidor.py 148-161)
get_tareas(auth) ==
    /\ LET username == require_user(auth)
       IN  IF username = NoUser
           THEN last' = Unauthorized("tareas", auth)
           ELSE last' = Answer("tareas", auth, username, 0, NoJson, 200, FALSE)
    /\ UNCHANGED <<usuarios, usuarioSeq, tareas, tareaSeq, now, issued, pending, creados>>

\* ---------------------------------------------------------- POST /tareas
\* servidor.py 165-181; usuario_id is NOT NULL, so a missing uid makes the
\* INSERT raise IntegrityError, which nothing catches (500)
crear_tarea(auth, body) ==
    /\ LET username == require_user(auth)
           titulo == Strip(GetText(body.obj, "titulo"))
           uid == get_user_id(username)
       IN  IF username = NoUser
           THEN /\ last' = Unauthorized("crear_tarea", auth)
                /\ UNCHANGED <<tareas, tareaSeq>>
           ELSE IF ~body.json
           THEN /\ last' = Answer("crear_tarea", auth, username, 0, body, 400, FALSE)
                /\ UNCHANGED <<tareas, tareaSeq>>
           ELSE IF titulo = <<>>
           THEN /\ last' = Answer("crear_tarea", auth, username, 0, body, 400, FALSE)
                /\ UNCHANGED <<tareas, tareaSeq>>
           ELSE IF uid = NoId
           THEN /\ last' = Answer("crear_tarea", auth, username, 0, body, 500, TRUE)
                /\ UNCHANGED <<tareas, tareaSeq>>
           ELSE /\ tareaSeq < MaxTareas
                /\ tareas' = tareas \cup
                        {[id |-> NextTareaId, titulo |-> titulo, hecha |-> 0,
                          usuario_id |-> uid]}
                /\ tareaSeq' = tareaSeq + 1
                /\ last' = [Answer("crear_tarea", auth, username, 0, body, 201, TRUE)
                              EXCEPT !.id = NextTareaId,
                                     !.items = <<[id |-> NextTareaId, titulo |-> titulo,
                                                  hecha |-> 0]>>]
    /\ UNCHANGED <<usuarios, usuarioSeq, now, issued, pending, creados>>

\* ------------------------------------------------------ GET /tareas/json
\* servidor.py 184-198: id, titulo, int(hecha) of each row of the user
Item(r) == [id |-> r.id, titulo |-> r.titulo, hecha |-> r.hecha]

listar_tareas(auth) ==
    /\ LET username == require_user(auth)
           rows == SelectTareas(get_user_id(username))
       IN  IF username = NoUser
           THEN last' = Unauthorized("listar_tareas", auth)
           ELSE last' = [Answer("listar_tareas", auth, username, 0, NoJson, 200, TRUE)
                           EXCEPT !.items = [i \in DOMAIN rows |-> Item(rows[i])]]
    /\ UNCHANGED <<usuarios, usuarioSeq, tareas, tareaSeq, now, issued, pending, creados>>

\* ------------------------------------------------------ PUT /tareas/<id>
\* str(titulo): the text itself, or the digits of a number
StrOf(v) == IF v.type = "string" THEN v.s
            ELSE IF v.n = 0 THEN <<"0">> ELSE IF v.n = 1 THEN <<"1">> ELSE <<"2">>

\* faulty variant: a column the body does not name is written too, as empty
UpdateRow_AllColumns(r, obj) ==
    [r EXCEPT !.titulo = IF "titulo" \in DOMAIN obj
                         THEN Strip(StrOf(obj["titulo"])) ELSE <<>>,
              !.hecha  = IF "hecha" \in DOMAIN obj
                         THEN (IF IntOf(obj["hecha"]) # 0 THEN 1 ELSE 0) ELSE 0]

\* The row after UPDATE tareas SET <sets> (servidor.py 210-214, 219)
UpdateRow(r, obj) ==
    [r EXCEPT !.titulo = IF "titulo" \in DOMAIN obj
                         THEN Strip(StrOf(obj["titulo"])) ELSE @,
              !.hecha  = IF "hecha" \in DOMAIN obj
                         THEN (IF IntOf(obj["hecha"]) # 0 THEN 1 ELSE 0) ELSE @]

\* servidor.py 201-223
actualizar_tarea(auth, tid, body) ==
    /\ LET username == require_user(auth)
           uid == get_user_id(username)
           obj == body.obj
           hit == Matching(tid, uid)
       IN  IF username = NoUser
           THEN /\ last' = Unauthorized("actualizar_tarea", auth)
                /\ UNCHANGED tareas
           ELSE IF ~body.json
           THEN /\ last' = Answer("actualizar_tarea", auth, username, tid, body, 400, FALSE)
                /\ UNCHANGED tareas
           ELSE IF "hecha" \in DOMAIN obj /\ ~CanInt(obj["hecha"])
           THEN /\ last' = Answer("actualizar_tarea", auth, username, tid, body, 500, TRUE)
                /\ UNCHANGED tareas
           ELSE IF DOMAIN obj \cap {"titulo", "hecha"} = {}
           THEN /\ last' = Answer("actualizar_tarea", auth, username, tid, body, 400, TRUE)
                /\ UNCHANGED tareas
           ELSE /\ tareas' = (tareas \ hit) \cup {UpdateRow(r, obj) : r \in hit}
                /\ last' = Answer("actualizar_tarea", auth, username, tid, body,
                                  IF hit = {} THEN 404 ELSE 200, TRUE)
    /\ UNCHANGED <<usuarios, usuarioSeq, tareaSeq, now, issued, pending, creados>>

\* --------------------------------------------------- DELETE /tareas/<id>
\* servidor.py 226-236
borrar_tarea(auth, tid) ==
    /\ LET username == require_user(auth)
           uid == get_user_id(username)
           hit == Matching(tid, uid)
       IN  IF username = NoUser
           THEN /\ last' = Unauthorized("borrar_tarea", auth)
                /\ UNCHANGED tareas
           ELSE /\ tareas' = tareas \ hit
                /\ last' = Answer("borrar_tarea", auth, username, tid, NoJson,
                                  IF hit = {} THEN 404 ELSE 200, TRUE)
    /\ UNCHANGED <<usuarios, usuarioSeq, tareaSeq, now, issued, pending, creados>>

\* ---------------------------------------------------------------- inputs
A == <<"a">>
B == <<"b">>

Creds(u, p) == [usuario |-> JStr(u), contrasena |-> JStr(p)]

\* the same payload with the password under the other accepted key
CredsAlias(u, p) ==
    [k \in {"usuario", "contrase~na"} |-> IF k = "usuario" THEN JStr(u) ELSE JStr(p)]

\* JSON bodies of /registro and /login
Payloads ==
    {NoJson, Json(<<>>), Json([usuario |-> JStr(A)]),
     Json(Creds(A, <<"p">>)), Json(Creds(A, <<"p", " ">>)), Json(Creds(A, <<"q">>)),
     Json(Creds(<<" ", "a">>, <<"p">>)), Json(CredsAlias(A, <<"q">>)),
     Json(Creds(B, <<"p">>))}

\* The two plain accounts the task requests are made with
Cuentas == {Json(Creds(A, <<"p">>)), Json(Creds(B, <<"p">>))}

\* Tokens a client can put in a header: those /login returned, one of them
\* with its subject rewritten, and one signed with a key of the client's own
Tampered == {[t EXCEPT !.sub = u] : t \in issued, u \in {A, B}} \ issued
SelfSigned == [sub |-> A, iat |-> now, sig |-> Sign(OtherKey, A, now)]

Bearer == <<"B", "e", "a", "r", "e", "r">>
BEARER == <<"B", "E", "A", "R", "E", "R">>
Basic == <<"B", "a", "s", "i", "c">>

\* Authorization headers, as their whitespace-separated words (none: <<>>)
Headers ==
    {<<>>, <<Word(Bearer)>>, <<Word(Bearer), TokWord(SelfSigned)>>}
    \cup {<<Word(s), TokWord(t)>> : s \in {Bearer, BEARER, Basic}, t \in issued}
    \cup {<<Word(Bearer), TokWord(t), Word(<<"x">>)>> : t \in issued}
    \cup {<<Word(Bearer), TokWord(t)>> : t \in Tampered}

\* No header, or "Bearer <token>" with a token /login returned
PlainHeaders == {<<>>} \cup {<<Word(Bearer), TokWord(t)>> : t \in issued}

Tids == 1..(MaxTareas + 1)

CrearBodies ==
    {NoJson, Json(<<>>), Json([titulo |-> JStr(<<" ">>)]),
     Json([titulo |-> JStr(<<"T">>)]), Json([titulo |-> JStr(<<" ", "U">>)])}

PutBodies ==
    {NoJson, Json(<<>>),
     Json([titulo |-> JStr(<<" ">>)]), Json([titulo |-> JStr(<<" ", "U">>)]),
     Json([hecha |-> JNum(0)]), Json([hecha |-> JNum(1)]), Json([hecha |-> JNum(2)]),
     Json([hecha |-> JStr(<<"x">>)]),
     Json([titulo |-> JStr(<<" ", "U">>), hecha |-> JNum(1)]),
     Json([titulo |-> JStr(<<"T">>), hecha |-> JStr(<<"x">>)])}

\* --------------------------------------------------------- specifications
\* The whole service: every route, every input above.
Next ==
    \/ Tick
    \/ \E w \in 1..NumWorkers, body \in Payloads : registro(w, body)
    \/ \E w \in 1..NumWorkers : create_user_insert(w)
    \/ \E body \in Payloads : login(body)
    \/ \E auth \in Headers : get_tareas(auth)
    \/ \E auth \in Headers, body \in CrearBodies : crear_tarea(auth, body)
    \/ \E auth \in Headers : listar_tareas(auth)
    \/ \E auth \in Headers, tid \in Tids, body \in PutBodies :
            actualizar_tarea(auth, tid, body)
    \/ \E auth \in Headers, tid \in Tids : borrar_tarea(auth, tid)

Spec == Init /\ [][Next]_vars

\* Accounts and tokens: concurrent registrations, logins, the clock, and
\* GET /tareas as the reader of tokens.
NextAuth ==
    \/ Tick
    \/ \E w \in 1..NumWorkers, body \in Payloads : registro(w, body)
    \/ \E w \in 1..NumWorkers : create_user_insert(w)
    \/ \E body \in Payloads : login(body)
    \/ \E auth \in Headers : get_tareas(auth)

SpecAuth == Init /\ [][NextAuth]_vars

\* The task routes, called by two plainly registered accounts with no header
\* or a well-formed one; the clock stands still.
NextTareas ==
    \/ \E body \in Cuentas : registro(1, body)
    \/ create_user_insert(1)
    \/ \E body \in Cuentas : login(body)
    \/ \E auth \in PlainHeaders, body \in CrearBodies : crear_tarea(auth, body)
    \/ \E auth \in PlainHeaders : listar_tareas(auth)
    \/ \E auth \in PlainHeaders, tid \in Tids, body \in PutBodies :
            actualizar_tarea(auth, tid, body)
    \/ \E auth \in PlainHeaders, tid \in Tids : borrar_tarea(auth, tid)

SpecTareas == Init /\ [][NextTareas]_vars

\* The protected routes under every header and a moving clock. A request
\* that authenticates is a plain one: a POST with a title, a list, a DELETE.
GuardBodies ==
    {NoJson, Json(<<>>), Json([titulo |-> JStr(<<"T">>)]),
     Json([titulo |-> JStr(<<" ", "U">>), hecha |-> JNum(1)])}

NextGuard ==
    \/ Tick
    \/ \E body \in Cuentas : registro(1, body)
    \/ create_user_insert(1)
    \/ \E body \in Cuentas : login(body)
    \/ \E auth \in Headers : get_tareas(auth)
    \/ \E auth \in Headers, body \in GuardBodies :
            /\ require_user(auth) = NoUser \/ body = Json([titulo |-> JStr(<<"T">>)])
            /\ crear_tarea(auth, body)
    \/ \E auth \in Headers : listar_tareas(auth)
    \/ \E auth \in Headers, tid \in Tids, body \in GuardBodies :
            /\ require_user(auth) = NoUser
            /\ actualizar_tarea(auth, tid, body)
    \/ \E auth \in Headers, tid \in Tids : borrar_tarea(auth, tid)

SpecGuard == Init /\ [][NextGuard]_vars

\* ================================================================ claims
\* What a claim calls a registration or login request with credentials: a
\* JSON body whose usuario and password are not blank
GivenUser(body) == GetText(body.obj, "usuario")
GivenPassword(body) == GetPassword(body.obj)
HasCredentials(body) ==
    body.json /\ Strip(GivenUser(body)) # <<>> /\ Strip(GivenPassword(body)) # <<>>

RowsOf(rows, username) == {r \in rows : r.usuario = username}

\* ---- C2
C2_UsuarioUnico ==
    /\ \A u \in DOMAIN creados : Len(creados[u]) <= 1
    /\ \A r1, r2 \in usuarios : r1.usuario = r2.usuario => r1 = r2

C2_RegistroStep ==
    (last'.op = "registro" /\ HasCredentials(last'.body)) =>
        IF RowsOf(usuarios, last'.usuario) # {}
        THEN /\ last'.status = 400
             /\ last'.msg = "ya existe"
             /\ usuarios' = usuarios
        ELSE /\ last'.status = 201
             /\ Cardinality(RowsOf(usuarios', last'.usuario)) = 1

\* C2: a /registro carrying credentials answers 201 when no row holds the
\* username at the moment it answers, and 400 "ya existe" (adding nothing)
\* when one does; whatever the interleaving of the lookup and the insert of
\* concurrent registrations, no username is answered 201 more than once and
\* the table never holds two rows with one username.
C2_Registro == []C2_UsuarioUnico /\ [][C2_RegistroStep]_vars

\* C2 witness: a registration that passed the pre-lookup and lost the race:
\* its INSERT was refused after another request created the same username
C2_Witness ==
    /\ last.op = "registro"
    /\ last.at = "insert"
    /\ last.status = 400
    /\ last.usuario \in DOMAIN creados
    /\ Len(creados[last.usuario]) = 1

\* ---- C3
Expired(t) == now - t.iat > TOKEN_EXPIRATION_SECONDS

BearerOf(hdr) == Len(hdr) = 2 /\ hdr[1].text = Bearer /\ hdr[2].tok \in issued

C3_Verify ==
    /\ (last.op = "login" /\ last.status = 200) =>
            /\ last.token \in issued
            /\ last.token.iat = now
            /\ last.token.sub = Strip(GivenUser(last.body))
    /\ (last.op = "tareas" /\ BearerOf(last.hdr)) =>
            IF Expired(last.hdr[2].tok)
            THEN last.status = 401 /\ last.usuario = NoUser
            ELSE last.status = 200 /\ last.usuario = last.hdr[2].tok.sub
    /\ \A t \in issued :
            verify_token(t) = IF Expired(t) THEN NoUser ELSE t.sub

C3_OnceExpired ==
    \A t \in issued : Expired(t) => (t \in issued' /\ verify_token(t)' = NoUser)

Registered(username) == username \in DOMAIN creados

\* C5 as stated, for JSON logins: a username that is not in the table, or a
\* password other than the one given at registration, is answered 401
\* without a token
C5_AsStated ==
    (last.op = "login" /\ last.body.json) =>
        LET u == GivenUser(last.body)
            p == GivenPassword(last.body)
        IN  (~Registered(u) \/ creados[u][1] # p) =>
                (last.status = 401 /\ last.token = NoToken)

\* C5 amended: usuario and password are trimmed by both /registro and
\* /login; a JSON login returns 200 and a token for the trimmed username
\* exactly when that username is registered and the trimmed password equals
\* the trimmed password it was registered with, and 401 without a token
\* otherwise; every token ever issued names a registered user.
C5_Login ==
    /\ (last.op = "login" /\ last.body.json) =>
        LET u == Strip(GivenUser(last.body))
            p == Strip(GivenPassword(last.body))
        IN  IF Registered(u) /\ Strip(creados[u][1]) = p
            THEN last.status = 200 /\ last.token \in issued /\ last.token.sub = u
            ELSE last.status = 401 /\ last.token = NoToken
    /\ (last.op = "login" /\ ~last.body.json) => last.token = NoToken
    /\ \A t \in issued : Registered(t.sub)

\* C5 witness: a registered user's login with another password got 401
C5_Witness ==
    /\ last.op = "login"
    /\ last.body.json
    /\ Registered(Strip(GivenUser(last.body)))
    /\ last.status = 401

\* ------------------------------------------------------- task-side terms
Ids(rows) == {r.id : r \in rows}
RowById(rows, tid) == CHOOSE r \in rows : r.id = tid
UidOf(username) == (CHOOSE r \in usuarios : r.usuario = username).id
Stores == <<usuarios, usuarioSeq, tareas, tareaSeq>>

\* a step in which the handler op answered a caller it had authenticated
Authed(op) == last'.op = op /\ last'.usuario # NoUser /\ last'.status # 401

\* last'.tid names a task of somebody other than the caller
ForeignTask ==
    /\ last'.tid \in Ids(tareas)
    /\ RowById(tareas, last'.tid).usuario_id # UidOf(last'.usuario)

\* last'.tid names a task of the caller
OwnTask ==
    /\ last'.tid \in Ids(tareas)
    /\ RowById(tareas, last'.tid).usuario_id = UidOf(last'.usuario)

\* what PUT answers for an id that matches no row of the caller
PutMiss(body) ==
    IF ~body.json THEN 400
    ELSE IF "hecha" \in DOMAIN body.obj /\ ~CanInt(body.obj["hecha"]) THEN 500
    ELSE IF DOMAIN body.obj \cap {"titulo", "hecha"} = {} THEN 400
    ELSE 404

\* ---- C1
\* C1 as stated: a PUT or DELETE on another user's task answers 404 and
\* changes nothing
C1_AsStated ==
    [][ ((Authed("actualizar_tarea") \/ Authed("borrar_tarea")) /\ ForeignTask) =>
            (last'.status = 404 /\ tareas' = tareas) ]_vars

C1_Step ==
    /\ (Authed("borrar_tarea") /\ ForeignTask) =>
            (last'.status = 404 /\ tareas' = tareas)
    /\ (Authed("actualizar_tarea") /\ ForeignTask) =>
            (last'.status = PutMiss(last'.body) /\ tareas' = tareas)
    /\ (Authed("borrar_tarea") /\ last'.tid \notin Ids(tareas)) =>
            last'.status = 404
    /\ (Authed("actualizar_tarea") /\ last'.tid \notin Ids(tareas)) =>
            last'.status = PutMiss(last'.body)

\* C1 amended: on another user's task a DELETE answers 404, and a PUT
\* answers 404 when its JSON body names titulo or a numeric hecha; a PUT
\* without JSON or without either field answers 400 and one whose hecha is
\* not a number answers 500. Each answer is the one an id that does not
\* exist gets, and the task stays in the table with the same titulo, hecha
\* and usuario_id.
C1_Ajeno == [][C1_Step]_vars

\* C1 witness: a PUT on an existing task of another user answered 404
C1_Witness ==
    /\ last.op = "actualizar_tarea"
    /\ last.status = 404
    /\ last.tid \in Ids(tareas)
    /\ RowById(tareas, last.tid).usuario_id # UidOf(last.usuario)

\* ---- C6
\* C6: GET /tareas/json answers an authenticated user with one item per row
\* of tareas owned by that user, carrying the row's id, titulo and hecha, no
\* other item, in strictly descending id order.
C6_Listar ==
    (last.op = "listar_tareas" /\ last.status = 200) =>
        LET mine == {r \in tareas : r.usuario_id = UidOf(last.usuario)}
            items == last.items
        IN  /\ Len(items) = Cardinality(mine)
            /\ \A r \in mine : \E i \in DOMAIN items :
                    /\ items[i].id = r.id
                    /\ items[i].titulo = r.titulo
                    /\ items[i].hecha = r.hecha
            /\ \A i, j \in DOMAIN items : i < j => items[i].id > items[j].id

\* C6 witness: a list of two items answered while the table holds them
C6_Witness ==
    /\ last.op = "listar_tareas"
    /\ last.status = 200
    /\ Len(last.items) >= 2

\* ---- C7
\* C7: no row of tareas has an empty titulo.
C7_TituloNoVacio == \A r \in tareas : r.titulo # <<>>

\* ---- C8
C8_Step ==
    /\ (Authed("borrar_tarea") /\ last'.tid \notin Ids(tareas)) =>
            (last'.status = 404 /\ tareas' = tareas)
    /\ (Authed("borrar_tarea") /\ OwnTask) =>
            (last'.status = 200 /\ tareas' = tareas \ {RowById(tareas, last'.tid)})
    /\ \A tid \in 1..tareaSeq : tid \notin Ids(tareas) => tid \notin Ids(tareas')

\* C8: an authenticated DELETE of an id that is not in the table answers 404
\* and changes nothing; the owner's DELETE answers 200 and removes that row
\* alone; an id once deleted is never in the table again, so a later DELETE
\* of it answers 404 too.
C8_Borrar == [][C8_Step]_vars

\* C8 witness: a DELETE of an id that was created and then deleted got 404
C8_Witness ==
    /\ last.op = "borrar_tarea"
    /\ last.status = 404
    /\ last.tid <= tareaSeq
    /\ last.tid \notin Ids(tareas)

\* ---- C9
Created == last.op = "crear_tarea" /\ last.status = 201

\* C9 as stated: the created task is in the table under the title the
\* request gave
C9_AsStated ==
    Created =>
        \E r \in tareas :
            /\ r.id = last.id
            /\ r.titulo = GetText(last.body.obj, "titulo")
            /\ r.hecha = 0

C9_Create ==
    Created =>
        /\ last.id = tareaSeq
        /\ \E r \in tareas :
            /\ r.id = last.id
            /\ r.titulo = Strip(GetText(last.body.obj, "titulo"))
            /\ r.titulo # <<>>
            /\ r.hecha = 0
            /\ r.usuario_id = UidOf(last.usuario)
        /\ \E i \in DOMAIN SelectTareas(UidOf(last.usuario)) :
            SelectTareas(UidOf(last.usuario))[i].id = last.id

HechaOnly(body) == body.json /\ DOMAIN body.obj = {"hecha"} /\ body.obj["hecha"] = JNum(1)

C9_Put ==
    (Authed("actualizar_tarea") /\ OwnTask /\ HechaOnly(last'.body)) =>
        LET r == RowById(tareas, last'.tid)
            listed == SelectTareas(UidOf(last.usuario))'
        IN  /\ last'.status = 200
            /\ tareas' = (tareas \ {r}) \cup {[r EXCEPT !.hecha = 1]}
            /\ \E i \in DOMAIN listed : listed[i] = [r EXCEPT !.hecha = 1]

\* C9 amended: a task its owner creates is stored, and listed for that owner,
\* under the title trimmed of surrounding whitespace, with hecha = 0 and a
\* newly generated id; the owner's PUT {"hecha": 1} on that id answers 200
\* and sets hecha to 1 in that row, leaving its titulo, its usuario_id and
\* every other row as they were.
C9_RoundTrip == []C9_Create /\ [][C9_Put]_vars

\* C9 witness: the owner's PUT {"hecha": 1} answered 200 with another task
\* in the table
C9_Witness ==
    /\ last.op = "actualizar_tarea"
    /\ last.status = 200
    /\ HechaOnly(last.body)
    /\ Cardinality(tareas) >= 2
    /\ RowById(tareas, last.tid).hecha = 1

\* ---- C4
Protected == {"tareas", "crear_tarea", "listar_tareas", "actualizar_tarea", "borrar_tarea"}

\* the header is not "Bearer <token>" with a token /login issued that has
\* not expired
NoIdentity(hdr) ==
    ~ (/\ Len(hdr) = 2
       /\ Lower(hdr[1].text) = BearerLower
       /\ hdr[2].tok \in issued
       /\ ~Expired(hdr[2].tok))

C4_Step ==
    (last'.op \in Protected /\ NoIdentity(last'.hdr)) =>
        /\ last'.status = 401
        /\ ~last'.db
        /\ UNCHANGED Stores

\* C4: each of the five protected handlers, given a header that resolves to
\* no identity, answers 401 without having opened the database, and the
\* usuarios and tareas tables are as before.
C4_SinIdentidad == [][C4_Step]_vars

\* C4 witness: a DELETE carrying an expired token got 401 with tasks stored
C4_Witness ==
    /\ last.op = "borrar_tarea"
    /\ last.status = 401
    /\ BearerOf(last.hdr)
    /\ Expired(last.hdr[2].tok)
    /\ tareas # {}

\* ---- C10
C10_Owner ==
    /\ \A r \in tareas : Cardinality({u \in usuarios : u.id = r.usuario_id}) = 1
    /\ \A t \in issued : RowsOf(usuarios, t.sub) # {}
    /\ (last.op = "crear_tarea" /\ last.usuario # NoUser) => last.status # 500

\* C10: every row of tareas has a usuario_id that is the id of exactly one
\* row of usuarios; every issued token names a username in usuarios; POST
\* /tareas never finds the owner id missing; and no step removes or changes
\* a row of usuarios.
C10_Propietario == []C10_Owner /\ [][usuarios \subseteq usuarios']_vars

\* C10 witness: a task was created with a token issued at an earlier time
C10_Witness ==
    /\ last.op = "crear_tarea"
    /\ last.status = 201
    /\ last.hdr[2].tok.iat < now

====
